---- MODULE Spec2Model ----
(***************************************************************************)
(* The per-source backfill pipeline of comoda-backfill: five provider      *)
(* scripts (CoinAPI, Yahoo Finance, LunarCrush, Santiment, CryptoPanic),   *)
(* each a run of  load config -> ensure tables -> fetch work items ->      *)
(* export snapshot -> one transaction of row inserts -> completion event.  *)
(*                                                                         *)
(* A run is a process p of Procs; run[p] holds its parameters, its locals  *)
(* and its position.  files and tables are the export directory and the    *)
(* relational store, shared by all runs.  probe is a payload item and the  *)
(* records an adapter maps it to, for the properties of the mapping alone. *)
(***************************************************************************)
EXTENDS Integers, Sequences, FiniteSets, TLC

VARIABLES run, files, tables, probe

vars == <<run, files, tables, probe>>

----------------------------------------------------------------------------
(* Bounds of the model *)

MaxTokens == 2      \* longest --tokens list
MaxDay == 2         \* calendar days are 1..MaxDay
MaxItems == 2       \* most items in one response body
MaxPages == 2       \* longest chain of CryptoPanic pages
MaxWork == 6        \* most work items in one run
MaxRows == 2        \* most records the sources give to one run
MaxRowsTwo == 1     \* the same, for each of two runs side by side
MaxVotes == 2       \* largest count in a CryptoPanic item's votes
MaxScore == 2       \* largest panic_score of a CryptoPanic item

----------------------------------------------------------------------------
(* Inputs *)

Procs == {"p1", "p2"}
Providers == {"coinapi", "yahoo", "lunarcrush", "santiment", "cryptopanic"}
Tokens == {"BTC", "ETH", "SOL", "btc"}
RunIds == {"r1", "r2"}
Days == 1..MaxDay

(* str.upper() and str.lower() on the token texts. *)
upper(s) ==
    CASE s \in {"BTC", "btc"} -> "BTC"
      [] s \in {"ETH", "eth"} -> "ETH"
      [] s \in {"SOL", "sol"} -> "SOL"
      [] OTHER -> s

lower(s) ==
    CASE s \in {"BTC", "btc"} -> "btc"
      [] s \in {"ETH", "eth"} -> "eth"
      [] s \in {"SOL", "sol"} -> "sol"
      [] OTHER -> s

(* The --tokens lists: the lists of up to MaxTokens entries that alternate
   BTC and ETH or repeat BTC, a token without a slug of its own, and a
   token typed in lower case. *)
TokenLists ==
    {[j \in 1..n |-> IF j % 2 = 1 THEN "BTC" ELSE "ETH"] : n \in 0..MaxTokens}
    \cup {[j \in 1..n |-> "BTC"] : n \in 0..MaxTokens}
    \cup {<<"SOL">>, <<"btc">>}

(* The windows: start <= end. *)
Windows == {w \in Days \X Days : w[1] <= w[2]}

(* A JSON field of a response item: a number, absent, null, or a value that
   is not a number (a string such as "n/a"). *)
Num(n) == [k |-> "num", n |-> n]
Absent == [k |-> "missing", n |-> 0]
JsonNull == [k |-> "null", n |-> 0]
Garbage == [k |-> "bad", n |-> 0]
Null == [k |-> "null", n |-> 0]

RawValues == {Num(1), Absent, JsonNull, Garbage}

(* The time fields that behave differently.  Yahoo's frame index is always
   a date; LunarCrush reads an absent time as 0 and raises on a text;
   Santiment's strptime and CryptoPanic's _parse_date treat an absent time
   as they treat any text that is not a date. *)
RawTimes(provider, S) ==
    {Num(t) : t \in S}
    \cup CASE provider = "yahoo" -> {}
           [] provider = "lunarcrush" -> {Absent, Garbage}
            [] OTHER -> {Absent}

(* The title of a CryptoPanic item's source object, when it has one. *)
Title == [k |-> "text", n |-> 0]

(* t: the source-reported time of the item, v: its value field, x: a second
   field (Yahoo's Volume column, CryptoPanic's votes), s: the title of the
   item's source (CryptoPanic). *)
Item(t, v, x, s) == [t |-> t, v |-> v, x |-> x, s |-> s]

(* The value fields that behave differently: only CoinAPI's
   row.get(key, 0.0) tells an absent key from a null. *)
ItemValues(provider) ==
    CASE provider = "yahoo" -> {Num(1), Absent}
      [] provider = "coinapi" -> RawValues
      [] provider = "cryptopanic" -> {Num(1), Absent}
      [] OTHER -> {Num(1), Absent, Garbage}

(* The second field: Yahoo's Volume; CryptoPanic's votes, absent from the
   items of a run; unused elsewhere. *)
ItemSeconds(provider) ==
    CASE provider = "yahoo" -> {Num(1), Absent}
      [] provider = "cryptopanic" -> {Absent}
      [] OTHER -> {Num(1)}

ItemSources(provider) == IF provider = "cryptopanic" THEN {Absent, Title} ELSE {Absent}

(* The items a source can report for calendar days S.  A CryptoPanic item
   of a run has its panic_score and its source title, or neither. *)
Items(provider, S) ==
    {it \in {Item(t, v, x, s) : t \in RawTimes(provider, S), v \in ItemValues(provider),
                                x \in ItemSeconds(provider), s \in ItemSources(provider)} :
        provider = "cryptopanic" => (it.v.k = "num" <=> it.s.k = "text")}

(* The bodies a source can answer with, of up to n items.  CryptoPanic
   answers unfiltered: each item is of any day.  The other sources answer a
   daily series from the requested start: the j-th item is of day
   start_d + j - 1.  CoinAPI is asked with limit = 1. *)
RECURSIVE Bodies(_, _, _)
Bodies(provider, start_d, n) ==
    IF n = 0 THEN {<<>>}
    ELSE LET shorter == Bodies(provider, start_d, n - 1)
             on == IF provider = "cryptopanic" THEN Days ELSE {start_d + n - 1}
         IN shorter \cup {Append(s, it) : s \in {t \in shorter : Len(t) = n - 1},
                                          it \in Items(provider, on)}

(* One answer of the network: a transport error (kind "exc"), or an HTTP
   response with a status, a body that decodes as JSON or not, its items and
   a continuation link or none. *)
Resp(kind, status, json_ok, items, next) ==
    [kind |-> kind, status |-> status, json_ok |-> json_ok, items |-> items, next |-> next]

TransportError == Resp("exc", 0, FALSE, <<>>, FALSE)

(* The longest body an answer can have when the run can take room more
   records. *)
BodySize(provider, room) ==
    LET most == IF provider = "coinapi" THEN 1 ELSE MaxItems
    IN IF room < most THEN room ELSE most

Responses(provider, start_d, end_d, room) ==
    {TransportError, Resp("http", 429, TRUE, <<>>, FALSE), Resp("http", 500, TRUE, <<>>, FALSE),
     Resp("http", 200, FALSE, <<>>, FALSE)}
    \cup {Resp("http", 200, TRUE, its, nx) :
            its \in Bodies(provider, start_d, BodySize(provider, room)),
            nx \in IF provider = "cryptopanic" THEN BOOLEAN ELSE {FALSE}}

----------------------------------------------------------------------------
(* Canonical records (utils/schemas.py).  One numeric field stands for the
   record's numeric columns; run_id is backfill_run_id. *)

EpochDay == 0       \* the date of utcfromtimestamp(0)

MkRow(token, date, value, source) ==
    [token |-> token, date |-> date, value |-> value, source |-> source, run_id |-> ""]

(* The result of a call that may raise: rows (or series) when it returns,
   raised = TRUE when an exception leaves it. *)
Returned(rows) == [raised |-> FALSE, rows |-> rows]
Raised == [raised |-> TRUE, rows |-> <<>>]

(* float(row.get(key, 0.0)): the default only replaces an absent key; None
   and a non-numeric string make float() raise. *)
FloatOfGet(f) ==
    CASE f.k = "num" -> Returned(f.n)
      [] f.k = "missing" -> Returned(0)
      [] OTHER -> Raised

(* float(p.get(key) or 0.0): absent, None and 0 fall to the default; a
   non-numeric string makes float() raise. *)
FloatOfGetOr(f) ==
    CASE f.k = "num" -> Returned(f.n)
      [] f.k \in {"missing", "null"} -> Returned(0)
      [] OTHER -> Raised

----------------------------------------------------------------------------
(* CoinAPI *)

(* daterange with the end day excluded (cur < end). *)
RECURSIVE daterange_exclusive(_, _)
daterange_exclusive(start, end) ==
    IF start < end THEN <<start>> \o daterange_exclusive(start + 1, end) ELSE <<>>

RECURSIVE daterange(_, _)
daterange(start, end) ==
    IF start <= end THEN <<start>> \o daterange(start + 1, end) ELSE <<>>

(* The retry after any non-success status of the first response. *)
retry_after_any_status(r1) == r1.kind = "http" /\ r1.status # 200

(* if r.status_code == 429: whether the first response is retried. *)
retry_after(r1) == r1.kind = "http" /\ r1.status = 429

(* fetch_day: the first request, the single retry after a 429, and the
   mapping of the first bar; every exception is caught and gives []. r1 and
   r2 are the answers the network gives to the first and second request. *)
fetch_day(symbol, day, r1, r2) ==
    LET retried == retry_after(r1)
        r == IF retried THEN r2 ELSE r1
        answers == IF retried THEN <<r1, r2>> ELSE <<r1>>
        val == IF r.items = <<>> THEN Raised ELSE FloatOfGet(r.items[1].v)
        rows == IF r.kind = "exc" THEN <<>>
                ELSE IF r.status # 200 THEN <<>>
                ELSE IF ~r.json_ok THEN <<>>
                ELSE IF r.items = <<>> THEN <<>>
                ELSE IF val.raised THEN <<>>
                ELSE <<MkRow(symbol, day, Num(val.rows), "coinapi")>>
    IN [raised |-> FALSE, rows |-> rows, answers |-> answers]

----------------------------------------------------------------------------
(* LunarCrush *)

lunarcrush_point(symbol, p) ==
    LET score == FloatOfGetOr(p.v)
    IN IF p.t.k = "bad" \/ score.raised THEN Raised
       ELSE Returned(<<MkRow(upper(symbol), IF p.t.k = "num" THEN p.t.n ELSE EpochDay,
                             Num(score.rows), "lunarcrush")>>)

RECURSIVE lunarcrush_points(_, _)
lunarcrush_points(symbol, ts) ==
    IF ts = <<>> THEN Returned(<<>>)
    ELSE LET h == lunarcrush_point(symbol, Head(ts))
             t == lunarcrush_points(symbol, Tail(ts))
         IN IF h.raised \/ t.raised THEN Raised ELSE Returned(h.rows \o t.rows)

(* fetch_daily: one request, no retry, no try/except. *)
fetch_daily(symbol, r) ==
    LET body == lunarcrush_points(symbol, r.items)
    IN IF r.kind = "exc" THEN [raised |-> TRUE, rows |-> <<>>, answers |-> <<r>>]
       ELSE IF r.status # 200 THEN [raised |-> FALSE, rows |-> <<>>, answers |-> <<r>>]
       ELSE IF ~r.json_ok THEN [raised |-> TRUE, rows |-> <<>>, answers |-> <<r>>]
       ELSE [raised |-> body.raised, rows |-> body.rows, answers |-> <<r>>]

----------------------------------------------------------------------------
(* Santiment *)

metrics_sent == <<"sentiment_volume_consumed_1d", "social_volume_total", "sentiment_balance_total">>
metrics_onchain == <<"active_addresses_24h", "dev_activity", "transaction_volume">>

(* symbol_to_slug.get(tok.upper(), tok.lower()) *)
symbol_to_slug(tok) ==
    CASE upper(tok) = "BTC" -> "bitcoin"
      [] upper(tok) = "ETH" -> "ethereum"
      [] OTHER -> lower(tok)

(* fetch_metric: one request, no retry, no try/except; returns the raw
   series. *)
fetch_metric(r) ==
    IF r.kind = "exc" THEN [raised |-> TRUE, rows |-> <<>>, answers |-> <<r>>]
    ELSE IF r.status # 200 THEN [raised |-> FALSE, rows |-> <<>>, answers |-> <<r>>]
    ELSE IF ~r.json_ok THEN [raised |-> TRUE, rows |-> <<>>, answers |-> <<r>>]
    ELSE [raised |-> FALSE, rows |-> r.items, answers |-> <<r>>]

(* (point.get("datetime") or "").split("T")[0]: the day text of a point;
   absent and None give "". *)
DayText(t) == IF t.k \in {"missing", "null"} THEN Absent ELSE t

(* datetime.strptime(dt, "%Y-%m-%d").date(): raises unless dt is a date. *)
strptime(dt) == IF dt.k = "num" THEN Returned(dt.n) ELSE Raised

(* The points of sent_data in the order the consolidation loop reads them:
   metric by metric, each series front to back. *)
RECURSIVE SentPoints(_, _)
SentPoints(sent_data, m) ==
    IF m > Len(sent_data) THEN <<>>
    ELSE [j \in 1..Len(sent_data[m]) |-> [m |-> metrics_sent[m], point |-> sent_data[m][j]]]
         \o SentPoints(sent_data, m + 1)

IndexOfDay(bd, dt) ==
    IF \E j \in 1..Len(bd) : bd[j].dt = dt
    THEN CHOOSE j \in 1..Len(bd) : bd[j].dt = dt
    ELSE 0

(* by_day.setdefault(dt, {})[m] = float(point.get("value") or 0.0), over the
   points in order; by_day keeps insertion order. *)
RECURSIVE by_day_fold(_, _)
by_day_fold(bd, pts) ==
    IF pts = <<>> THEN Returned(bd)
    ELSE LET pt == Head(pts)
             dt == DayText(pt.point.t)
             val == FloatOfGetOr(pt.point.v)
             at == IndexOfDay(bd, dt)
             bd2 == IF at = 0
                    THEN Append(bd, [dt |-> dt, vals |-> (pt.m :> val.rows)])
                    ELSE [bd EXCEPT ![at].vals = (pt.m :> val.rows) @@ @]
         IN IF val.raised THEN Raised ELSE by_day_fold(bd2, Tail(pts))

by_day(sent_data) == by_day_fold(<<>>, SentPoints(sent_data, 1))

RECURSIVE sentiment_rows(_, _)
sentiment_rows(tok, bd) ==
    IF bd = <<>> THEN Returned(<<>>)
    ELSE LET e == Head(bd)
             score == IF "sentiment_balance_total" \in DOMAIN e.vals
                      THEN e.vals["sentiment_balance_total"] ELSE 0
             date == strptime(e.dt)
             rest == sentiment_rows(tok, Tail(bd))
         IN IF date.raised \/ rest.raised THEN Raised
            ELSE Returned(<<MkRow(upper(tok), date.rows, Num(score), "santiment")>> \o rest.rows)

(* Lines 98-122: consolidate the token's three series by day and build its
   sentiment rows. *)
consolidate(tok, sent_data) ==
    LET bd == by_day(sent_data)
    IN IF bd.raised THEN Raised ELSE sentiment_rows(tok, bd.rows)

RECURSIVE onchain_points(_, _)
onchain_points(tok, series) ==
    IF series = <<>> THEN Returned(<<>>)
    ELSE LET point == Head(series)
             date == strptime(DayText(point.t))
             val == FloatOfGetOr(point.v)
             rest == onchain_points(tok, Tail(series))
         IN IF date.raised \/ val.raised \/ rest.raised THEN Raised
            ELSE Returned(<<MkRow(upper(tok), date.rows, Num(val.rows), "santiment")>> \o rest.rows)

----------------------------------------------------------------------------
(* CryptoPanic *)

(* _parse_date: the date of the text, or today's date when it does not
   parse. *)
parse_date(t, today) == IF t.k = "num" THEN t.n ELSE today

(* The votes object of an item. *)
Votes(bullish, liked, bearish, disliked) ==
    [k |-> "votes", bullish |-> bullish, liked |-> liked, bearish |-> bearish,
     disliked |-> disliked]

RECURSIVE GCD(_, _)
GCD(a, b) == IF b = 0 THEN a ELSE GCD(b, a % b)

(* The float n / d, d > 0: a whole number, or the fraction in lowest
   terms. *)
Ratio(n, d) ==
    LET g == GCD(IF n < 0 THEN -n ELSE n, d)
    IN IF d \div g = 1 THEN Num(n \div g)
       ELSE [k |-> "ratio", n |-> n \div g, d |-> d \div g]

(* _sentiment_from_item: a numeric panic_score as it is; otherwise
   (bullish - bearish) / total over the votes, with votes absent read as {}
   and each count as "or 0"; 0.0 when total is 0. *)
sentiment_from_item(it) ==
    IF it.v.k = "num" THEN Num(it.v.n)
    ELSE LET votes == it.x
             has == votes.k = "votes"
             bullish == IF has THEN votes.bullish + votes.liked ELSE 0
             bearish == IF has THEN votes.bearish + votes.disliked ELSE 0
             total == bullish + bearish
         IN IF total > 0 THEN Ratio(bullish - bearish, total) ELSE Num(0)

(* (it.get("source") or {}).get("title") or "cryptopanic" *)
source_of_item(it) == IF it.s.k = "text" THEN "CoinDesk" ELSE "cryptopanic"

(* The dates the clock can show. *)
ClockDays == 1..(MaxDay + 1)

(* The clock's dates at the items of a page, one reading for each item,
   never going back from the reading before; from is the reading before
   the first.  Only the reading at an item without a date reaches a
   record, so at a dated item the reading is left as it was. *)
RECURSIVE Clocks(_, _)
Clocks(its, from) ==
    IF its = <<>> THEN {<<>>}
    ELSE LET heads == IF Head(its).t.k = "num" THEN {from}
                      ELSE {c \in ClockDays : from <= c}
         IN UNION {{<<c>> \o rest : rest \in Clocks(Tail(its), c)} : c \in heads}

(* The item loop of fetch_posts: todays[j] is the clock's date when item j
   is mapped. *)
cryptopanic_page(token, its, todays) ==
    [j \in 1..Len(its) |->
        MkRow(upper(token), parse_date(its[j].t, todays[j]), sentiment_from_item(its[j]),
              source_of_item(its[j]))]

(* The window filter with the end day excluded (x.date < end_d). *)
in_window_exclusive(rows, start_d, end_d) ==
    SelectSeq(rows, LAMBDA x : start_d <= x.date /\ x.date < end_d)

(* The client-side window filter of the run loop. *)
in_window(rows, start_d, end_d) ==
    SelectSeq(rows, LAMBDA x : start_d <= x.date /\ x.date <= end_d)

----------------------------------------------------------------------------
(* Yahoo Finance *)

(* _f(v): None for NaN.  int(r.get("Volume", 0) or 0): NaN is truthy, and
   int(NaN) raises. *)
yahoo_row(sym, r) ==
    IF r.x.k # "num" THEN Raised
    ELSE Returned(<<MkRow(sym, r.t.n, IF r.v.k = "num" THEN Num(r.v.n) ELSE Null, "yahoo")>>)

RECURSIVE yahoo_rows(_, _)
yahoo_rows(sym, frame) ==
    IF frame = <<>> THEN Returned(<<>>)
    ELSE LET h == yahoo_row(sym, Head(frame))
             t == yahoo_rows(sym, Tail(frame))
         IN IF h.raised \/ t.raised THEN Raised ELSE Returned(h.rows \o t.rows)

(* yf.download inside try/except, then the row loop outside it. *)
yahoo_download(sym, r) ==
    LET body == yahoo_rows(sym, r.items)
    IN IF r.kind = "exc" THEN [raised |-> FALSE, rows |-> <<>>, answers |-> <<r>>]
       ELSE [raised |-> body.raised, rows |-> body.rows, answers |-> <<r>>]

YahooFrames(start_d, end_d, room) ==
    {TransportError}
    \cup {Resp("http", 200, TRUE, its, FALSE) : its \in Bodies("yahoo", start_d, BodySize("yahoo", room))}

Answers(provider, start_d, end_d, room) ==
    IF provider = "yahoo" THEN YahooFrames(start_d, end_d, room)
    ELSE Responses(provider, start_d, end_d, room)

----------------------------------------------------------------------------
(* The sinks: export files and tables *)

Families(provider) ==
    IF provider = "santiment" THEN <<"sentiment", "onchain">> ELSE <<"rows">>

Table(provider, fam) ==
    CASE provider = "coinapi" -> "bf_historical_market_data"
      [] provider = "yahoo" -> "bf_macro_data"
      [] provider = "lunarcrush" -> "bf_market_sentiment"
      [] provider = "cryptopanic" -> "bf_market_news_events"
      [] provider = "santiment" /\ fam = 1 -> "bf_market_sentiment"
      [] OTHER -> "bf_onchain_metrics"

Prefix(provider, fam) ==
    CASE provider = "coinapi" -> "coinapi_ohlcv"
      [] provider = "yahoo" -> "yahoo_macro"
      [] provider = "lunarcrush" -> "lunarcrush_sentiment"
      [] provider = "cryptopanic" -> "cryptopanic_news"
      [] provider = "santiment" /\ fam = 1 -> "santiment_sentiment"
      [] OTHER -> "santiment_onchain"

TableNames == {Table(pr, f) : pr \in Providers, f \in {1, 2}}

FileName(provider, fam, run_id, ext) == <<Prefix(provider, fam), run_id, ext>>

(* files maps the name of each file of the export directory to its rows;
   to_csv and to_parquet create the file or replace it. *)
NoFiles == [f \in {} |-> <<>>]
WriteFile(fs, name, rows) == [f \in DOMAIN fs \cup {name} |-> IF f = name THEN rows ELSE fs[f]]

(* The frame without the run_id column assignment. *)
StampMissing(rows, run_id) == rows

(* df["backfill_run_id"] = run_id on the frame built from the rows. *)
Stamp(rows, run_id) == [j \in 1..Len(rows) |-> [rows[j] EXCEPT !.run_id = run_id]]

----------------------------------------------------------------------------
(* A run *)

(* last: what the fetch of the latest work item saw and gave: the answers
   it received, in order, the number of records it contributed, whether an
   exception left it, and whether it is over. *)
NoLast == [answers |-> <<>>, n |-> 0, raised |-> FALSE, over |-> TRUE, page |-> <<>>]
Brief(r) == [kind |-> r.kind, status |-> r.status, json_ok |-> r.json_ok, next |-> r.next]
LastOf(res) ==
    [answers |-> [j \in 1..Len(res.answers) |-> Brief(res.answers[j])],
     n |-> Len(res.rows), raised |-> res.raised, over |-> TRUE, page |-> <<>>]

(* token_list of run(): upper case in the CoinAPI, LunarCrush and
   CryptoPanic scripts, as typed in the Santiment and Yahoo scripts. *)
parse_tokens(provider, tokens) ==
    IF provider \in {"coinapi", "lunarcrush", "cryptopanic"}
    THEN [j \in 1..Len(tokens) |-> upper(tokens[j])]
    ELSE tokens

(* The locals of run() and main_async(), the position pc of the run, and
   what the run has seen: calls, the requests' work items in order; taken,
   the number of items the sources have given it, at most room; clock, the
   latest date the clock gave to a record. *)
NewRun(provider, token_list, start_d, end_d, run_id, has_key) ==
    [provider |-> provider, token_list |-> token_list, start_d |-> start_d, end_d |-> end_d,
     run_id |-> run_id, has_key |-> has_key,
     pc |-> "config", i |-> 1, cur |-> 1,
     all_rows |-> <<>>, onchain_rows |-> <<>>, sent_data |-> <<>>, items |-> <<>>,
     fam |-> 1, k |-> 1, tx |-> <<>>,
     calls |-> <<>>, last |-> NoLast, db |-> FALSE,
     outcome |-> "running", at |-> "", count |-> <<>>, taken |-> 0, room |-> MaxRows,
     clock |-> 1]

NotStarted == [NewRun("coinapi", <<>>, 1, 1, "r1", FALSE) EXCEPT !.pc = "off"]

(* The number of work items of a run: token-days (CoinAPI), token-metrics
   (Santiment), tokens (the others). *)
WorkCount(provider, token_list, start_d, end_d) ==
    CASE provider = "coinapi" -> Len(token_list) * Len(daterange(start_d, end_d))
      [] provider = "santiment" -> Len(token_list) * (Len(metrics_sent) + Len(metrics_onchain))
      [] provider = "cryptopanic" -> Len(token_list) * MaxPages
      [] OTHER -> Len(token_list)

(* The invocations of a script on its own; its run id is the first of
   RunIds, the second is for a run beside it. *)
RunInputs ==
    {r \in {NewRun(pr, tl, w[1], w[2], "r1", key) :
              pr \in Providers, tl \in TokenLists, w \in Windows, key \in BOOLEAN} :
        WorkCount(r.provider, r.token_list, r.start_d, r.end_d) <= MaxWork}

(* The rows of record family fam of the run: all_rows (sentiment_rows in the
   Santiment run) or onchain_rows. *)
FamilyRows(r, fam) == IF fam = 1 THEN r.all_rows ELSE r.onchain_rows

(* Whether the loops have a work item at all. *)
HasWork(r) ==
    /\ r.token_list # <<>>
    /\ r.provider = "coinapi" => daterange(r.start_d, r.end_d) # <<>>

(* An exception leaves the run: the process ends, an open transaction is
   rolled back.  at is where the run was. *)
Abort(r, why) == [r EXCEPT !.pc = "aborted", !.outcome = why, !.at = r.pc, !.tx = <<>>]

(* probe holds a payload item and the records it was mapped to, each time
   it was mapped; in a run of the scripts it is not used. *)
NoProbe == [item |-> Item(Absent, Absent, Absent, Absent), out |-> <<>>]

Init ==
    /\ \E r \in RunInputs : run = [p \in Procs |-> IF p = "p1" THEN r ELSE NotStarted]
    /\ files = NoFiles
    /\ tables = [t \in TableNames |-> <<>>]
    /\ probe = NoProbe

(* run() without the assert on the key. *)
LoadConfigNoAssert(p) ==
    LET r == run[p] IN
    /\ r.pc = "config"
    /\ run' = [run EXCEPT ![p] = [r EXCEPT !.pc = "tables",
                                           !.token_list = parse_tokens(r.provider, @)]]
    /\ UNCHANGED <<files, tables, probe>>

(* run(): load_config(), the assert on the provider's key and the split of
   --tokens into token_list.  The Yahoo script asserts no key. *)
LoadConfig(p) ==
    LET r == run[p] IN
    /\ r.pc = "config"
    /\ run' = [run EXCEPT ![p] =
                 IF r.provider # "yahoo" /\ ~r.has_key
                 THEN Abort(r, "config_error")
                 ELSE [r EXCEPT !.pc = "tables",
                                !.token_list = parse_tokens(r.provider, @)]]
    /\ UNCHANGED <<files, tables, probe>>

(* make_engine and ensure_tables: the first use of the database; it is
   reachable or not. *)
EnsureTables(p) ==
    LET r == run[p] IN
    /\ r.pc = "tables"
    /\ \E reachable \in BOOLEAN :
         run' = [run EXCEPT ![p] =
                   IF ~reachable THEN Abort([r EXCEPT !.db = TRUE], "sink_error")
                   ELSE [r EXCEPT !.db = TRUE,
                                  !.pc = IF HasWork(r) THEN "fetch" ELSE "export"]]
    /\ UNCHANGED <<files, tables, probe>>

(* The loop headers: the next work item after the current one, or the end
   of the loops.  cur is the position in the inner loop: in
   daterange(start_d, end_d) for CoinAPI, in the six metrics for Santiment,
   the page for CryptoPanic. *)
InnerMore(r) ==
    CASE r.provider = "coinapi" -> r.cur < Len(daterange(r.start_d, r.end_d))
      [] r.provider = "santiment" -> r.cur < Len(metrics_sent) + Len(metrics_onchain)
      [] OTHER -> FALSE

(* The loops with "if not rows: break" for "if rows: extend": a work item
   that gave nothing ends the run's fetching. *)
NextItemBreakOnEmpty(r) ==
    IF r.last.n = 0 THEN [r EXCEPT !.pc = "export"]
    ELSE IF InnerMore(r) THEN [r EXCEPT !.cur = @ + 1]
    ELSE IF r.i < Len(r.token_list) THEN [r EXCEPT !.i = @ + 1, !.cur = 1]
    ELSE [r EXCEPT !.i = @ + 1, !.cur = 1, !.pc = "export"]

NextItem(r) ==
    IF InnerMore(r) THEN [r EXCEPT !.cur = @ + 1]
    ELSE IF r.i < Len(r.token_list) THEN [r EXCEPT !.i = @ + 1, !.cur = 1]
    ELSE [r EXCEPT !.i = @ + 1, !.cur = 1, !.pc = "export"]

(* CoinAPI main_async, one turn of the inner loop, up to the first answer
   of fetch_day: after a 429 the coroutine sleeps and the work item is not
   over; after any other answer fetch_day returns and the rows are
   extended. *)
FetchDay(p) ==
    LET r == run[p] IN
    /\ r.pc = "fetch" /\ r.provider = "coinapi" /\ r.last.over
    /\ LET sym == r.token_list[r.i]
           d == daterange(r.start_d, r.end_d)[r.cur]
       IN \E r1 \in Answers(r.provider, d, d, r.room - r.taken) :
            LET res == fetch_day(sym, d, r1, r1)
                seen == [r EXCEPT !.calls = Append(@, <<sym, d>>)]
            IN /\ r.taken + Len(r1.items) <= r.room
               /\ run' = [run EXCEPT ![p] =
                      IF retry_after(r1)
                      THEN [seen EXCEPT !.last = [answers |-> <<Brief(r1)>>, n |-> 0,
                                                  raised |-> FALSE, over |-> FALSE,
                                                  page |-> <<>>]]
                      ELSE NextItem([seen EXCEPT !.all_rows = @ \o res.rows,
                                                 !.taken = @ + Len(r1.items),
                                                 !.last = LastOf(res)])]
    /\ UNCHANGED <<files, tables, probe>>

(* fetch_day after the cooldown: the second request, its answer, and the
   extend of main_async. *)
FetchDayRetry(p) ==
    LET r == run[p] IN
    /\ r.pc = "fetch" /\ r.provider = "coinapi" /\ ~r.last.over
    /\ LET sym == r.token_list[r.i]
           d == daterange(r.start_d, r.end_d)[r.cur]
       IN \E r2 \in Answers(r.provider, d, d, r.room - r.taken) :
            LET res == fetch_day(sym, d, r.last.answers[1], r2)
            IN /\ r.taken + Len(r2.items) <= r.room
               /\ run' = [run EXCEPT ![p] =
                      NextItem([r EXCEPT !.all_rows = @ \o res.rows,
                                         !.taken = @ + Len(r2.items),
                                         !.last = LastOf(res)])]
    /\ UNCHANGED <<files, tables, probe>>

(* Yahoo run, one turn of the symbol loop. *)
FetchYahoo(p) ==
    LET r == run[p] IN
    /\ r.pc = "fetch" /\ r.provider = "yahoo"
    /\ \E a \in Answers(r.provider, r.start_d, r.end_d, r.room - r.taken) :
         LET sym == r.token_list[r.i]
             res == yahoo_download(sym, a)
             seen == [r EXCEPT !.calls = Append(@, <<sym, "download">>), !.last = LastOf(res),
                               !.taken = @ + Len(a.items)]
         IN /\ r.taken + Len(a.items) <= r.room
            /\ run' = [run EXCEPT ![p] =
                      IF res.raised THEN Abort(seen, "exception")
                      ELSE NextItem([seen EXCEPT !.all_rows = @ \o res.rows])]
    /\ UNCHANGED <<files, tables, probe>>

(* LunarCrush main_async, one turn of the token loop. *)
FetchDaily(p) ==
    LET r == run[p] IN
    /\ r.pc = "fetch" /\ r.provider = "lunarcrush"
    /\ \E a \in Answers(r.provider, r.start_d, r.end_d, r.room - r.taken) :
         LET sym == r.token_list[r.i]
             res == fetch_daily(sym, a)
             seen == [r EXCEPT !.calls = Append(@, <<sym, "assets">>), !.last = LastOf(res),
                               !.taken = @ + Len(a.items)]
         IN /\ r.taken + Len(a.items) <= r.room
            /\ run' = [run EXCEPT ![p] =
                      IF res.raised THEN Abort(seen, "exception")
                      ELSE NextItem([seen EXCEPT !.all_rows = @ \o res.rows])]
    /\ UNCHANGED <<files, tables, probe>>

(* Santiment main_async, one fetch_metric of the token: cur 1..3 are the
   sentiment metrics (the third is followed by the consolidation by day),
   cur 4..6 the on-chain metrics, each mapped as it arrives. *)
FetchMetric(p) ==
    LET r == run[p] IN
    /\ r.pc = "fetch" /\ r.provider = "santiment"
    /\ \E a \in Answers(r.provider, r.start_d, r.end_d, r.room - r.taken) :
         LET tok == r.token_list[r.i]
             ns == Len(metrics_sent)
             metric == IF r.cur <= ns THEN metrics_sent[r.cur] ELSE metrics_onchain[r.cur - ns]
             got == fetch_metric(a)
             data == Append(r.sent_data, got.rows)
             mapped == IF got.raised THEN Raised
                       ELSE IF r.cur < ns THEN Returned(<<>>)
                       ELSE IF r.cur = ns THEN consolidate(tok, data)
                       ELSE onchain_points(tok, got.rows)
             seen == [r EXCEPT !.calls = Append(@, <<symbol_to_slug(tok), metric>>),
                               !.last = LastOf(got), !.taken = @ + Len(a.items)]
         IN /\ r.taken + Len(a.items) <= r.room
            /\ run' = [run EXCEPT ![p] =
                      IF mapped.raised THEN Abort(seen, "exception")
                      ELSE NextItem([seen EXCEPT
                             !.sent_data = IF r.cur < ns THEN data ELSE <<>>,
                             !.all_rows = IF r.cur = ns THEN @ \o mapped.rows ELSE @,
                             !.onchain_rows = IF r.cur > ns THEN @ \o mapped.rows ELSE @])]
    /\ UNCHANGED <<files, tables, probe>>

(* The page loop with a cap of one page: the continuation link is never
   followed. *)
next_url_one_page(a) == FALSE

(* next_url after a turn of the page loop: payload.get("next") of a decoded
   200 response; TRUE when there is a link to follow. *)
next_url(a) == a.kind = "http" /\ a.status = 200 /\ a.json_ok /\ a.next

(* CryptoPanic fetch_posts, one turn of the page loop; on the last turn for
   the token, the window filter and the extend of main_async.  todays are
   the clock's dates when the items of the page are mapped. *)
FetchPage(p) ==
    LET r == run[p] IN
    /\ r.pc = "fetch" /\ r.provider = "cryptopanic"
    /\ \E a \in Answers(r.provider, r.start_d, r.end_d, r.room - r.taken) :
       \E todays \in Clocks(a.items, r.clock) :
         LET sym == r.token_list[r.i]
             failed == a.kind = "exc" \/ (a.status = 200 /\ ~a.json_ok)
             page == IF a.kind = "http" /\ a.status = 200 /\ a.json_ok
                     THEN cryptopanic_page(sym, a.items, todays) ELSE <<>>
             items == r.items \o page
             more == next_url(a)
             kept == in_window(items, r.start_d, r.end_d)
             answers == (IF r.cur = 1 THEN <<>> ELSE r.last.answers) \o <<Brief(a)>>
             seen == [r EXCEPT !.calls = Append(@, <<sym, r.cur>>),
                               !.last = [answers |-> answers, n |-> IF more THEN 0 ELSE Len(kept),
                                         raised |-> failed, over |-> ~more, page |-> page],
                               !.taken = @ + Len(a.items),
                               !.clock = IF todays = <<>> THEN @ ELSE todays[Len(todays)]]
         IN /\ r.taken + Len(a.items) <= r.room
            /\ more => r.cur < MaxPages
            /\ run' = [run EXCEPT ![p] =
                         IF failed THEN Abort([seen EXCEPT !.last.n = 0], "exception")
                         ELSE IF more THEN [seen EXCEPT !.items = items, !.cur = @ + 1]
                         ELSE NextItem([seen EXCEPT !.items = <<>>, !.all_rows = @ \o kept])]
    /\ UNCHANGED <<files, tables, probe>>

----------------------------------------------------------------------------
(* Persistence *)

NextFamily(r) ==
    IF r.fam < Len(Families(r.provider))
    THEN [r EXCEPT !.fam = @ + 1, !.pc = "export", !.k = 1, !.tx = <<>>]
    ELSE [r EXCEPT !.pc = "log", !.k = 1, !.tx = <<>>]

(* The frame built without its first row. *)
FrameWithoutFirst(r) == Tail(Stamp(FamilyRows(r, r.fam), r.run_id))

(* The frame of the family being persisted. *)
Frame(r) == Stamp(FamilyRows(r, r.fam), r.run_id)

(* The persist step with the export moved after the insert block: nothing
   is written before the transaction is opened. *)
ExportWriteAfterInsert(p) ==
    LET r == run[p] IN
    /\ r.pc = "export"
    /\ run' = [run EXCEPT ![p] =
                 IF FamilyRows(r, r.fam) = <<>> THEN NextFamily([r EXCEPT !.last = NoLast])
                 ELSE [r EXCEPT !.last = NoLast, !.pc = "begin"]]
    /\ UNCHANGED <<files, tables, probe>>

(* "if not rows: return" / "if not df.empty": an empty family writes no file
   and opens no transaction.  Otherwise to_csv then to_parquet; either may
   fail, which leaves the run with an exception. *)
ExportWrite(p) ==
    LET r == run[p]
        seen == [r EXCEPT !.last = NoLast]
        csv == FileName(r.provider, r.fam, r.run_id, "csv")
        parquet == FileName(r.provider, r.fam, r.run_id, "parquet")
    IN
    /\ r.pc = "export"
    /\ \/ /\ FamilyRows(r, r.fam) = <<>>
          /\ run' = [run EXCEPT ![p] = NextFamily(seen)]
          /\ UNCHANGED <<files, tables, probe>>
       \/ /\ FamilyRows(r, r.fam) # <<>>
          /\ run' = [run EXCEPT ![p] = [seen EXCEPT !.pc = "begin"]]
          /\ files' = WriteFile(WriteFile(files, csv, Frame(r)), parquet, Frame(r))
          /\ UNCHANGED <<tables, probe>>
       \/ /\ FamilyRows(r, r.fam) # <<>>
          /\ run' = [run EXCEPT ![p] = Abort(seen, "sink_error")]
          /\ \/ UNCHANGED files
             \/ files' = WriteFile(files, csv, Frame(r))
          /\ UNCHANGED <<tables, probe>>

(* with engine.begin() as conn: the connection is made or the database is
   unreachable. *)
TxBegin(p) ==
    LET r == run[p] IN
    /\ r.pc = "begin"
    /\ \E reachable \in BOOLEAN :
         run' = [run EXCEPT ![p] =
                   IF reachable THEN [r EXCEPT !.pc = "insert", !.k = 1, !.tx = <<>>]
                   ELSE Abort(r, "sink_error")]
    /\ UNCHANGED <<files, tables, probe>>

(* One conn.execute(INSERT ...) of the row loop; a failing statement leaves
   the with block by an exception and the transaction is rolled back. *)
InsertRow(p) ==
    LET r == run[p] IN
    /\ r.pc = "insert"
    /\ r.k <= Len(Frame(r))
    /\ \E accepted \in BOOLEAN :
         run' = [run EXCEPT ![p] =
                   IF accepted THEN [r EXCEPT !.tx = Append(@, Frame(r)[r.k]), !.k = @ + 1]
                   ELSE Abort(r, "sink_error")]
    /\ UNCHANGED <<files, tables, probe>>

(* The commit of a load that replaces the table's content instead of
   appending to it. *)
CommitReplacing(p) ==
    LET r == run[p] IN
    /\ r.pc = "insert"
    /\ r.k > Len(Frame(r))
    /\ run' = [run EXCEPT ![p] = NextFamily(r)]
    /\ tables' = [tables EXCEPT ![Table(r.provider, r.fam)] = r.tx]
    /\ UNCHANGED <<files, probe>>

(* The end of the with block: commit, which makes the transaction's rows
   part of the table, or fails and rolls back. *)
Commit(p) ==
    LET r == run[p] IN
    /\ r.pc = "insert"
    /\ r.k > Len(Frame(r))
    /\ \/ /\ run' = [run EXCEPT ![p] = NextFamily(r)]
          /\ tables' = [tables EXCEPT ![Table(r.provider, r.fam)] = @ \o r.tx]
       \/ /\ run' = [run EXCEPT ![p] = Abort(r, "sink_error")]
          /\ UNCHANGED tables
    /\ UNCHANGED <<files, probe>>

(* logger.info({"event": "..._backfill_complete", "count": len(all_rows)}) *)
LogComplete(p) ==
    LET r == run[p] IN
    /\ r.pc = "log"
    /\ run' = [run EXCEPT ![p] =
                 [r EXCEPT !.pc = "done", !.outcome = "complete",
                           !.count = [f \in 1..Len(Families(r.provider)) |->
                                        Len(FamilyRows(r, f))]]]
    /\ UNCHANGED <<files, tables, probe>>

Next ==
    \E p \in Procs :
        \/ LoadConfig(p)
        \/ EnsureTables(p)
        \/ FetchDay(p)
        \/ FetchDayRetry(p)
        \/ FetchYahoo(p)
        \/ FetchDaily(p)
        \/ FetchMetric(p)
        \/ FetchPage(p)
        \/ ExportWrite(p)
        \/ TxBegin(p)
        \/ InsertRow(p)
        \/ Commit(p)
        \/ LogComplete(p)

Spec == Init /\ [][Next]_vars

(* Two invocations side by side, with distinct run ids: each of one token
   over a one-day window, with its key set.  The first is of any script, the
   second of a script with one record family and no paging. *)
TwoInputs(run_id) ==
    {[NewRun(pr, <<"BTC">>, 1, 1, run_id, TRUE) EXCEPT !.room = MaxRowsTwo] : pr \in Providers}

SecondProviders == {"coinapi", "yahoo", "lunarcrush"}

InitTwo ==
    /\ \E a \in TwoInputs("r1"), b \in TwoInputs("r2") :
           /\ b.provider \in SecondProviders
           /\ run = [p \in Procs |-> IF p = "p1" THEN a ELSE b]
    /\ files = NoFiles
    /\ tables = [t \in TableNames |-> <<>>]
    /\ probe = NoProbe

SpecTwo == InitTwo /\ [][Next]_vars

(* The same command submitted again after the first invocation has
   completed: same script, same options, same run id. *)
InitRerun ==
    /\ \E a \in TwoInputs("r1") : run = [p \in Procs |-> IF p = "p1" THEN a ELSE NotStarted]
    /\ files = NoFiles
    /\ tables = [t \in TableNames |-> <<>>]
    /\ probe = NoProbe

Rerun ==
    LET first == run["p1"] IN
    /\ first.pc = "done" /\ run["p2"].pc = "off"
    /\ run' = [run EXCEPT !["p2"] =
                 [NewRun(first.provider, first.token_list, first.start_d, first.end_d,
                         first.run_id, first.has_key) EXCEPT !.room = first.room]]
    /\ UNCHANGED <<files, tables, probe>>

NextRerun == Next \/ Rerun

SpecRerun == InitRerun /\ [][NextRerun]_vars

(* The CoinAPI script run to its end: the sequential script takes its next
   step as long as it has one. *)
InitDays == Init /\ run["p1"].provider = "coinapi"

NextDays ==
    \E p \in Procs :
        \/ LoadConfig(p)
        \/ EnsureTables(p)
        \/ FetchDay(p)
        \/ FetchDayRetry(p)
        \/ ExportWrite(p)
        \/ TxBegin(p)
        \/ InsertRow(p)
        \/ Commit(p)
        \/ LogComplete(p)

SpecDays == InitDays /\ [][NextDays]_vars /\ WF_vars(NextDays)

(* The CryptoPanic script run to its end: the sequential script takes its
   next step as long as it has one. *)
InitPages == Init /\ run["p1"].provider = "cryptopanic"

NextPages ==
    \E p \in Procs :
        \/ LoadConfig(p)
        \/ EnsureTables(p)
        \/ FetchPage(p)
        \/ ExportWrite(p)
        \/ TxBegin(p)
        \/ InsertRow(p)
        \/ Commit(p)
        \/ LogComplete(p)

SpecPages == InitPages /\ [][NextPages]_vars /\ WF_vars(NextPages)

(* The CryptoPanic mapping on its own: one item of a page, mapped once and
   then once more, each time at some date of the clock. *)
ProbeVotes ==
    {Absent} \cup {Votes(b, l, s, d) : b \in 0..MaxVotes, l \in 0..MaxVotes,
                                       s \in 0..MaxVotes, d \in 0..MaxVotes}

ProbeScores == {Absent, Garbage} \cup {Num(n) : n \in 0..MaxScore}

ProbeItems ==
    {Item(t, v, x, s) : t \in RawTimes("cryptopanic", Days), v \in ProbeScores,
                        x \in ProbeVotes, s \in ItemSources("cryptopanic")}

InitProbe ==
    /\ run = [p \in Procs |-> NotStarted]
    /\ files = NoFiles
    /\ tables = [t \in TableNames |-> <<>>]
    /\ \E it \in ProbeItems : probe = [item |-> it, out |-> <<>>]

MapItem ==
    /\ Len(probe.out) < 2
    /\ \E today \in ClockDays :
         probe' = [probe EXCEPT
                     !.out = Append(@, cryptopanic_page("BTC", <<probe.item>>, <<today>>)[1])]
    /\ UNCHANGED <<run, files, tables>>

NextProbe == MapItem

SpecProbe == InitProbe /\ [][NextProbe]_vars

----------------------------------------------------------------------------
(* Properties *)

IsPrefix(a, b) == Len(a) <= Len(b) /\ \A j \in 1..Len(a) : a[j] = b[j]

Range(q) == {q[j] : j \in 1..Len(q)}

(* Whether the record's source is the provider's: the script's name, or for
   a CryptoPanic record the source of its item. *)
SourceIs(x, provider) == provider = "cryptopanic" \/ x.source = provider

(* The rows of the run in the table of its record family fam. *)
CommittedRows(r, fam) ==
    SelectSeq(tables[Table(r.provider, fam)],
              LAMBDA x : x.run_id = r.run_id /\ SourceIs(x, r.provider))

FamilyIndexes(r) == 1..Len(Families(r.provider))

ExportFiles(r, fam) ==
    {FileName(r.provider, fam, r.run_id, "csv"), FileName(r.provider, fam, r.run_id, "parquet")}

ExportWritten(r, fam) ==
    \A f \in ExportFiles(r, fam) : f \in DOMAIN files /\ files[f] # <<>>

RateLimited(a) == a.kind = "http" /\ a.status = 429
Success(a) == a.kind = "http" /\ a.status = 200 /\ a.json_ok

(* The work items of a run in declared order, tokens outer: by arithmetic on
   the window, not by the loops. *)
WindowDays(r) == IF r.start_d <= r.end_d THEN r.end_d - r.start_d + 1 ELSE 0

InnerItems(r) ==
    CASE r.provider = "coinapi" -> [j \in 1..WindowDays(r) |-> r.start_d + j - 1]
      [] r.provider = "santiment" -> metrics_sent \o metrics_onchain
      [] r.provider = "yahoo" -> <<"download">>
      [] r.provider = "lunarcrush" -> <<"assets">>
      [] OTHER -> <<1>>

WorkKey(r, tok) == IF r.provider = "santiment" THEN symbol_to_slug(tok) ELSE tok

WorkItems(r) ==
    LET n == Len(InnerItems(r))
    IN [j \in 1..(Len(r.token_list) * n) |->
          <<WorkKey(r, r.token_list[((j - 1) \div n) + 1]), InnerItems(r)[((j - 1) % n) + 1]>>]

(* The work items fetched so far (for CryptoPanic, the first page of each
   token). *)
Visited(r) ==
    IF r.provider = "cryptopanic" THEN SelectSeq(r.calls, LAMBDA c : c[2] = 1) ELSE r.calls

FetchOver(r) ==
    \/ r.pc \in {"export", "begin", "insert", "log", "done"}
    \/ r.pc = "aborted" /\ r.at \in {"export", "begin", "insert"}

(* C1: in each persist step the export files named by run_id are written,
   non-empty, before the transaction of that step is opened; when the
   transaction fails (at its opening, at an insert or at the commit) the
   files are there and the step's table holds no row of the run. *)
C1_ExportBeforeTransaction ==
    \A p \in Procs :
        LET r == run[p] IN
        /\ r.pc \in {"begin", "insert"} =>
               /\ ExportWritten(r, r.fam)
               /\ \A f \in ExportFiles(r, r.fam) : files[f] = Stamp(FamilyRows(r, r.fam), r.run_id)
        /\ (r.pc = "aborted" /\ r.outcome = "sink_error" /\ r.at \in {"begin", "insert"}) =>
               /\ ExportWritten(r, r.fam)
               /\ CommittedRows(r, r.fam) = <<>>

C1_Witness ==
    \E p \in Procs :
        LET r == run[p] IN
        /\ r.pc = "aborted" /\ r.outcome = "sink_error" /\ r.at = "insert" /\ r.k > 1
        /\ ExportWritten(r, r.fam)

(* C2: when a run has ended, normally or by a failure inside a
   transaction (at its opening, at an insert or at the commit), either every
   accumulated row of every record family of the run is committed or no row
   of the run is. *)
C2_AllOrNothing ==
    \A p \in Procs :
        LET r == run[p] IN
        (r.pc = "done" \/ (r.pc = "aborted" /\ r.at \in {"begin", "insert"})) =>
            \/ \A f \in FamilyIndexes(r) : CommittedRows(r, f) = <<>>
            \/ \A f \in FamilyIndexes(r) : CommittedRows(r, f) = Stamp(FamilyRows(r, f), r.run_id)

(* C3: a work item whose first answer is a 429 is requested a second time,
   exactly once, and when that second answer is a success the fetch gives
   its result. *)
C3_RetryOnceThenResult ==
    \A p \in Procs :
        LET r == run[p]
            l == r.last
        IN (l.over /\ l.answers # <<>> /\ RateLimited(l.answers[1])) =>
               /\ Len(l.answers) >= 2
               /\ r.provider # "cryptopanic" => Len(l.answers) = 2
               /\ Success(l.answers[2]) => ~l.raised

(* C4: a work item whose two consecutive answers were 429 ends without an
   exception and with zero records, and the loop goes on: the run is at the
   next work item, or past the loop with every work item fetched.  Where
   the fetch does not retry, the work item whose only answer was a 429 ends
   the same way. *)
AllRateLimited(l) ==
    l.over /\ l.answers # <<>> /\ \A j \in 1..Len(l.answers) : RateLimited(l.answers[j])

C4_RateLimitedItemSkipped ==
    \A p \in Procs :
        LET r == run[p] IN
        /\ AllRateLimited(r.last) => r.last.n = 0 /\ ~r.last.raised
        /\ (AllRateLimited(r.last) /\ Len(r.last.answers) = 2) =>
            /\ r.pc \in {"fetch", "export"}
            /\ IsPrefix(Visited(r), WorkItems(r))
            /\ r.pc = "export" => Visited(r) = WorkItems(r)
            /\ r.pc = "fetch" =>
                   /\ Len(Visited(r)) < Len(WorkItems(r))
                   /\ WorkItems(r)[Len(Visited(r)) + 1][1] = WorkKey(r, r.token_list[r.i])

C4_Witness ==
    \E p \in Procs :
        LET r == run[p] IN
        /\ r.provider = "coinapi" /\ r.pc = "fetch"
        /\ Len(r.last.answers) = 2 /\ AllRateLimited(r.last)
        /\ Len(r.calls) = 2 /\ Len(r.all_rows) = 1

(* C5: a transport-level error in a fetch (no answer, or a body that does
   not decode) never leaves the fetch as an exception and never ends the
   run. *)
TransportFailure(a) == a.kind = "exc" \/ (a.kind = "http" /\ a.status = 200 /\ ~a.json_ok)

C5_TransportErrorCaught ==
    \A p \in Procs :
        LET r == run[p] IN
        (\E j \in 1..Len(r.last.answers) : TransportFailure(r.last.answers[j])) =>
            ~r.last.raised /\ r.outcome # "exception"

(* C6: when every answer of a work item is a decoded success, whatever
   fields its items lack, no exception leaves the mapping and the run goes
   on. *)
C6_MalformedItemDefaulted ==
    \A p \in Procs :
        LET r == run[p] IN
        (r.last.answers # <<>> /\ \A j \in 1..Len(r.last.answers) : Success(r.last.answers[j])) =>
            ~r.last.raised /\ r.outcome # "exception"

(* C7 as stated: once the loops of the CoinAPI run over a window with
   start <= end are over, fetch_day has been called exactly once for each
   pair of a token of the list and a day of the window. *)
C7_EveryPairExactlyOnce ==
    \A p \in Procs :
        LET r == run[p] IN
        (r.provider = "coinapi" /\ r.start_d <= r.end_d /\ FetchOver(r)) =>
            \A tok \in Range(r.token_list), d \in r.start_d..r.end_d :
                Cardinality({j \in 1..Len(r.calls) : r.calls[j] = <<tok, d>>}) = 1

(* The fetch_day calls made so far are a prefix of the pairs (entry of the
   token list, day of the window), entries in the order given and days
   ascending within each; none is of a day outside the window; once the
   loops are over they are exactly those pairs, one call for each entry and
   day; and when no token is listed twice no pair is called twice. *)
C7_CallsInOrder ==
    \A p \in Procs :
        LET r == run[p]
            distinct == \A j, k \in 1..Len(r.token_list) :
                            r.token_list[j] = r.token_list[k] => j = k
        IN (r.pc # "off" /\ r.provider = "coinapi" /\ r.start_d <= r.end_d) =>
            /\ IsPrefix(r.calls, WorkItems(r))
            /\ \A j \in 1..Len(r.calls) : r.start_d <= r.calls[j][2] /\ r.calls[j][2] <= r.end_d
            /\ (r.pc = "fetch" /\ r.last.over) => Len(r.calls) < Len(WorkItems(r))
            /\ FetchOver(r) => r.calls = WorkItems(r)
            /\ distinct =>
                   \A j, k \in 1..Len(r.calls) : r.calls[j] = r.calls[k] => j = k

(* C7: in the CoinAPI run over a window with start <= end, fetch_day is
   called once for each entry of the token list and each day of the window
   (a token listed twice is fetched twice; a token listed once, once per
   day), entries outer in the order given, days ascending, no day outside
   the window; and the loops, once entered, come to their end. *)
C7_EveryEntryDayOnceAndEnds ==
    /\ []C7_CallsInOrder
    /\ (run["p1"].pc = "fetch") ~> FetchOver(run["p1"])

C7_Witness ==
    \E p \in Procs :
        LET r == run[p] IN
        /\ r.provider = "coinapi" /\ r.pc = "export"
        /\ r.token_list = <<"BTC", "ETH">> /\ r.start_d = 1 /\ r.end_d = 2
        /\ r.calls = <<<<"BTC", 1>>, <<"BTC", 2>>, <<"ETH", 1>>, <<"ETH", 2>>>>

(* C8: the records accumulated by a run have an empty run_id; every row of
   an export file carries the run_id in the file's name, every row inserted
   in a transaction and every committed row carries the run_id of its run,
   which is not empty. *)
C8_RunIdStampedAtPersistence ==
    /\ \A p \in Procs :
           LET r == run[p] IN
           /\ \A x \in Range(r.all_rows) \cup Range(r.onchain_rows) \cup Range(r.items) :
                  x.run_id = ""
           /\ \A x \in Range(r.tx) : x.run_id = r.run_id /\ x.run_id # ""
    /\ \A f \in DOMAIN files :
               /\ \A x \in Range(files[f]) : x.run_id = f[2] /\ x.run_id # ""
               /\ \E p \in Procs : run[p].pc # "off" /\ f \in UNION {ExportFiles(run[p], fam) : fam \in FamilyIndexes(run[p])}
    /\ \A t \in TableNames :
           \A x \in Range(tables[t]) :
               /\ x.run_id # ""
               /\ \E p \in Procs :
                      /\ run[p].pc # "off" /\ x.run_id = run[p].run_id /\ SourceIs(x, run[p].provider)
                      /\ \E fam \in FamilyIndexes(run[p]) : t = Table(run[p].provider, fam)

C8_Witness ==
    \E p \in Procs :
        LET r == run[p] IN
        /\ r.pc = "done" /\ r.run_id = "r1"
        /\ Len(CommittedRows(r, 1)) = 2 /\ ExportWritten(r, 1)
        /\ \A x \in Range(r.all_rows) : x.run_id = ""

(* C9: after a run that completed, for each record family the number of
   records accumulated, the count in the completion event and the number of
   rows the table gained are equal, and when that number is not zero each of
   the two export files holds that many rows. *)
C9_CountsAgree ==
    \A p \in Procs :
        LET r == run[p] IN
        r.pc = "done" =>
            \A f \in FamilyIndexes(r) :
                LET N == Len(FamilyRows(r, f)) IN
                /\ r.count[f] = N
                /\ Len(CommittedRows(r, f)) = N
                /\ N > 0 => \A file \in ExportFiles(r, f) :
                                file \in DOMAIN files /\ Len(files[file]) = N

C9_Witness ==
    \E p \in Procs :
        LET r == run[p] IN
        /\ r.pc = "done" /\ r.provider = "coinapi"
        /\ r.token_list = <<"BTC">> /\ r.start_d = 1 /\ r.end_d = 2
        /\ r.count = <<2>> /\ Len(tables["bf_historical_market_data"]) = 2
        /\ \A file \in ExportFiles(r, 1) : file \in DOMAIN files /\ Len(files[file]) = 2

(* C10: a run that has ended is in exactly one of three states: completed
   with a non-empty batch committed; completed with an empty batch, no
   export file and no row; or aborted, and then by a missing credential or a
   sink failure only. *)
C10_TerminalStates ==
    \A p \in Procs :
        LET r == run[p]
            N == Len(r.all_rows) + Len(r.onchain_rows)
            committed == \A f \in FamilyIndexes(r) :
                             CommittedRows(r, f) = Stamp(FamilyRows(r, f), r.run_id)
            nothing == \A f \in FamilyIndexes(r) :
                           /\ CommittedRows(r, f) = <<>>
                           /\ \A file \in ExportFiles(r, f) : file \notin DOMAIN files
            batch == r.pc = "done" /\ r.outcome = "complete" /\ N > 0 /\ committed
            zero == r.pc = "done" /\ r.outcome = "complete" /\ N = 0 /\ nothing
            abort == r.pc = "aborted" /\ r.outcome \in {"config_error", "sink_error"}
        IN r.pc \in {"done", "aborted"} =>
               \/ batch /\ ~zero /\ ~abort
               \/ zero /\ ~batch /\ ~abort
               \/ abort /\ ~batch /\ ~zero

(* C11: a run of a provider that requires a key, started without it, uses
   neither the database nor the network: once past load_config it is
   aborted by the assert, before make_engine, with no request made, no
   export file written, no transaction opened and no row of its own in any
   table. *)
KeyMissing(r) == r.pc # "off" /\ r.provider # "yahoo" /\ ~r.has_key

C11_NoActivityWithoutCredential ==
    \A p \in Procs :
        LET r == run[p] IN
        KeyMissing(r) =>
            /\ r.pc \in {"config", "aborted"}
            /\ r.pc = "aborted" => r.outcome = "config_error" /\ r.at = "config"
            /\ ~r.db /\ r.calls = <<>> /\ r.taken = 0 /\ r.tx = <<>>
            /\ \A f \in FamilyIndexes(r) :
                   /\ CommittedRows(r, f) = <<>>
                   /\ \A file \in ExportFiles(r, f) : file \notin DOMAIN files

C11_Witness ==
    \E p \in Procs :
        LET r == run[p] IN
        /\ KeyMissing(r) /\ r.provider = "santiment" /\ r.token_list # <<>>
        /\ r.pc = "aborted" /\ r.outcome = "config_error"

(* What a run on its own leaves behind, as a function of its own state: the
   record families it has exported and those it has committed. *)
Exported(r, f) ==
    /\ FamilyRows(r, f) # <<>>
    /\ \/ f < r.fam
       \/ f = r.fam /\ r.pc \in {"begin", "insert", "log", "done"}
       \/ f = r.fam /\ r.pc = "aborted" /\ r.at \in {"begin", "insert"}

Committed(r, f) ==
    /\ FamilyRows(r, f) # <<>>
    /\ f < r.fam \/ (f = r.fam /\ r.pc \in {"log", "done"})

AllExportFiles(r) == UNION {ExportFiles(r, f) : f \in FamilyIndexes(r)}

(* C12: two runs with distinct run ids, under every interleaving: the export
   files of the two are disjoint sets, every file of the directory is named
   by the run id of one of them, each exported family's files hold that
   run's stamped rows, and in each table the rows of a run are its committed
   families' rows, in order and nothing else: what the run leaves when it
   runs alone. *)
C12_DistinctRunsDoNotInterfere ==
    /\ AllExportFiles(run["p1"]) \cap AllExportFiles(run["p2"]) = {}
    /\ \A file \in DOMAIN files : \E p \in Procs : file \in AllExportFiles(run[p])
    /\ \A t \in TableNames : \A j \in 1..Len(tables[t]) :
           \E p \in Procs : tables[t][j].run_id = run[p].run_id
    /\ \A p \in Procs :
           LET r == run[p] IN
           \A f \in FamilyIndexes(r) :
               /\ Exported(r, f) =>
                      \A file \in ExportFiles(r, f) :
                          file \in DOMAIN files /\ files[file] = Stamp(FamilyRows(r, f), r.run_id)
               /\ \A file \in ExportFiles(r, f) :
                      file \in DOMAIN files =>
                          file[2] = r.run_id /\ files[file] = Stamp(FamilyRows(r, f), r.run_id)
               /\ CommittedRows(r, f) =
                      IF Committed(r, f) THEN Stamp(FamilyRows(r, f), r.run_id) ELSE <<>>

(* Both runs have written the same table, p2 first, and both have ended
   with their own rows and files. *)
C12_Witness ==
    LET a == run["p1"]
        b == run["p2"]
    IN /\ a.provider = "santiment" /\ b.provider = "lunarcrush"
       /\ a.pc = "done" /\ b.pc = "done"
       /\ Len(tables["bf_market_sentiment"]) = 2
       /\ tables["bf_market_sentiment"][1].run_id = "r2"
       /\ tables["bf_market_sentiment"][2].run_id = "r1"
       /\ Exported(a, 1) /\ Exported(b, 1)

(* C13: once the first run has completed, whatever a later run with the
   same run id does, the first run's rows stay in their tables where they
   were (the table's content begins with them) and each export file the
   first run wrote keeps the content the first run gave it. *)
C13_RerunLeavesOutput ==
    LET first == run["p1"] IN
    first.pc = "done" =>
        \A f \in FamilyIndexes(first) :
            LET own == Stamp(FamilyRows(first, f), first.run_id) IN
            /\ IsPrefix(own, tables[Table(first.provider, f)])
            /\ Exported(first, f) =>
                   \A file \in ExportFiles(first, f) :
                       file \in DOMAIN files /\ files[file] = own

(* C14: every sentiment score the CryptoPanic mapping gives is in [-1, 1],
   and for an item without a numeric panic_score whose bullish and bearish
   counts are both zero it is exactly 0.0. *)
InUnit(v) ==
    \/ v.k = "num" /\ -1 <= v.n /\ v.n <= 1
    \/ v.k = "ratio" /\ -v.d <= v.n /\ v.n <= v.d

VoteTotal(it) ==
    IF it.x.k = "votes"
    THEN it.x.bullish + it.x.liked + it.x.bearish + it.x.disliked
    ELSE 0

C14_ScoreInUnitInterval ==
    \A j \in 1..Len(probe.out) :
        /\ InUnit(probe.out[j].value)
        /\ (probe.item.v.k # "num" /\ VoteTotal(probe.item) = 0) =>
               probe.out[j].value = Num(0)

(* C15: the same item mapped twice gives the same record, whatever the
   clock's date at each mapping. *)
C15_MappingDeterministic ==
    Len(probe.out) = 2 => probe.out[1] = probe.out[2]

(* C16: the CryptoPanic page loop requests the pages of a token in the
   order of the links, page 1, 2, ... once each; it goes on exactly when the
   response carries a link and stops at the first response without one or
   that failed; the records of a page follow those of the pages before it;
   and the run ends. *)
HasLink(b) == b.kind = "http" /\ b.status = 200 /\ b.json_ok /\ b.next

C16_PagesInOrder ==
    \A p \in Procs :
        LET r == run[p]
            l == r.last
            n == Len(l.answers)
            c == Len(r.calls)
        IN (r.provider = "cryptopanic" /\ n > 0) =>
              /\ \A j \in 1..(n - 1) : HasLink(l.answers[j])
              /\ l.over <=> ~HasLink(l.answers[n])
              /\ c >= n
              /\ \A j \in 1..n : r.calls[c - n + j] = <<r.calls[c][1], j>>

C16_PageRecordsAppended ==
    \A p \in Procs :
        LET r == run[p]
            q == run'[p]
        IN (r.provider = "cryptopanic" /\ r.pc = "fetch" /\ q.calls # r.calls) =>
              \/ ~q.last.over /\ q.pc = "fetch" /\ q.i = r.i /\ q.cur = r.cur + 1
                    /\ IsPrefix(r.items, q.items)
              \/ q.last.over /\ q.pc = "aborted"
              \/ q.last.over /\ q.pc # "aborted" /\ q.cur = 1 /\ q.i = r.i + 1
                    /\ IsPrefix(r.all_rows \o in_window(r.items, r.start_d, r.end_d), q.all_rows)

C16_FollowsLinksToTheEnd ==
    /\ []C16_PagesInOrder
    /\ [][C16_PageRecordsAppended]_vars
    /\ <>(run["p1"].pc \in {"done", "aborted"})

(* A run that followed a link: two pages of one token, a record from each,
   the first page's record first. *)
C16_Witness ==
    LET r == run["p1"]
    IN /\ r.provider = "cryptopanic" /\ r.pc = "done"
       /\ r.calls = <<(<<"BTC", 1>>), (<<"BTC", 2>>)>>
       /\ Len(r.all_rows) = 2 /\ r.all_rows[1].date < r.all_rows[2].date

(* C17: the CoinAPI fetch of one work item makes at most two requests, the
   second exactly when the first response had status 429; a last response
   with a status other than 200 gives no records and no exception. *)
C17_AtMostOneRetry ==
    \A p \in Procs :
        LET r == run[p]
            l == r.last
            n == Len(l.answers)
        IN (r.provider = "coinapi" /\ n > 0) =>
              /\ n <= 2
              /\ n = 2 => RateLimited(l.answers[1])
              /\ (l.over /\ RateLimited(l.answers[1])) => n = 2
              /\ ~l.over => (n = 1 /\ RateLimited(l.answers[1]))
              /\ (l.answers[n].kind = "http" /\ l.answers[n].status # 200) =>
                    l.n = 0 /\ ~l.raised /\ r.outcome # "exception"

(* A work item answered 429 and then 500: two requests, nothing returned,
   no exception, and the run goes on. *)
C17_Witness ==
    LET r == run["p1"]
        l == r.last
    IN /\ r.provider = "coinapi" /\ r.outcome = "running"
       /\ Len(r.calls) = 1 /\ r.all_rows = <<>>
       /\ Len(l.answers) = 2 /\ RateLimited(l.answers[1])
       /\ l.answers[2].kind = "http" /\ l.answers[2].status = 500
       /\ l.n = 0 /\ ~l.raised

(* C18: in the CryptoPanic run the pages of a token are held unfiltered
   until the last one; then exactly the records dated outside the window
   are dropped and the others are kept in order; every record in all_rows,
   in an export file or in the table is dated within the window. *)
Dated(x, start_d, end_d) == start_d <= x.date /\ x.date <= end_d

RECURSIVE Kept(_, _, _)
Kept(rows, start_d, end_d) ==
    IF rows = <<>> THEN <<>>
    ELSE IF Dated(Head(rows), start_d, end_d)
         THEN <<Head(rows)>> \o Kept(Tail(rows), start_d, end_d)
         ELSE Kept(Tail(rows), start_d, end_d)

C18_RecordsInWindow ==
    \A p \in Procs :
        LET r == run[p] IN
        r.provider = "cryptopanic" =>
            /\ \A j \in 1..Len(r.all_rows) : Dated(r.all_rows[j], r.start_d, r.end_d)
            /\ \A file \in ExportFiles(r, 1) :
                  file \in DOMAIN files =>
                      \A j \in 1..Len(files[file]) : Dated(files[file][j], r.start_d, r.end_d)
            /\ \A j \in 1..Len(tables["bf_market_news_events"]) :
                  Dated(tables["bf_market_news_events"][j], r.start_d, r.end_d)

C18_FilterAfterFetch ==
    \A p \in Procs :
        LET r == run[p]
            q == run'[p]
        IN (r.provider = "cryptopanic" /\ r.pc = "fetch" /\ q.calls # r.calls /\ q.pc # "aborted") =>
              IF q.last.over
              THEN q.all_rows = r.all_rows \o Kept(r.items \o q.last.page, r.start_d, r.end_d)
              ELSE q.items = r.items \o q.last.page /\ q.all_rows = r.all_rows

C18_WindowAppliedClientSide ==
    /\ []C18_RecordsInWindow
    /\ [][C18_FilterAfterFetch]_vars

(* A run over the one-day window [1, 1] whose source gave two items, one
   dated in the window and one outside: one record is committed. *)
C18_Witness ==
    LET r == run["p1"]
    IN /\ r.provider = "cryptopanic" /\ r.pc = "done"
       /\ r.start_d = 1 /\ r.end_d = 1
       /\ r.taken = 2 /\ Len(r.all_rows) = 1
       /\ Len(tables["bf_market_news_events"]) = 1
       /\ tables["bf_market_news_events"][1].date = 1

====
